---- MODULE Spec2Model ----
(***************************************************************************)
(* A model of filament/backend/src/Driver.cpp: the deferred-release        *)
(* registry of DriverBase (purge, scheduleDestroySlow, scheduleRelease),   *)
(* its destructor, the debug-command markers (debugCommandBegin,           *)
(* debugCommandEnd), Driver::execute and Driver::getElementTypeSize.       *)
(*                                                                         *)
(* Every thread runs a call stack of frames (top of stack first).  A       *)
(* frame is one activation of purge(), of scheduleDestroySlow() or         *)
(* scheduleRelease(), or of a release callback (user code), and its pc     *)
(* names the source line the activation is about to execute.               *)
(***************************************************************************)
EXTENDS Integers, Sequences, FiniteSets, TLC

\* ------------------------------------------------------------------ bounds
NumBuffers == 2     \* BufferDescriptors the run may schedule
NumImages  == 2     \* AcquiredImages the run may schedule
MaxPurges  == 2     \* purge() calls the run may issue
MaxOps     == 3     \* driver calls issued through the command stream
MaxElemCalls == 2   \* calls of getElementTypeSize
MaxGarbage == 16    \* largest value a call with undefined behaviour returns

\* ------------------------------------------------------------------ values
Threads  == {"user", "gl"}
NoThread == "none"

Buffers == {<<"buffer", k>> : k \in 1..NumBuffers}
Images  == {<<"image", k>> : k \in 1..NumImages}
Items   == Buffers \cup Images
NoItem  == <<"none", 0>>

IsImage(x)  == x[1] = "image"
IsBuffer(x) == x[1] = "buffer"

Range(s) == {s[k] : k \in 1..Len(s)}

IsPrefix(s, t) == Len(s) <= Len(t) /\ \A k \in 1..Len(s) : s[k] = t[k]

VARIABLES
    \* ---- DriverBase: the deferred-release registry
    mPurgeLock,       \* owner of the std::mutex, or NoThread
    mBufferToPurge,   \* std::vector<BufferDescriptor>
    mImagesToPurge,   \* std::vector<AcquiredImage>
    stack,            \* per thread: its call stack, top first
    destroyed,        \* ~DriverBase has run
    \* ---- observations of the run (history, read by the properties only)
    started,          \* items handed to a schedule* call
    pushed,           \* items whose push_back has executed
    returned,         \* items whose schedule* call has returned
    calls,            \* per item: how often its release callback was invoked
    cbLog,            \* items in the order their callbacks were invoked
    lockOrd,          \* images in the order scheduleRelease acquired the lock
    schedIn,          \* per item: the purge whose callback scheduled it (0: none)
    takenBy,          \* per item: the purge that swapped it out (0: none)
    nPurges,          \* purge() calls issued so far
    \* ---- the debug-command markers and Driver::execute
    debugCommands,    \* FILAMENT_DEBUG_COMMANDS: which of LOG, SYSTRACE are set
    queue,            \* the command stream: commands not yet executed
    cmd,              \* the driver call in progress on the calling thread
    callerTrace,      \* systrace markers emitted on the calling thread
    execTrace,        \* what the execution thread has run, in order
    slog,             \* utils::slog.d lines
    nOps,             \* driver calls issued so far
    \* ---- Driver::getElementTypeSize
    etype,            \* the argument
    epc,              \* "call", "ret" (returned esize) or "trap"
    esize,            \* the value returned
    ecalls            \* calls made so far

regVars == <<mPurgeLock, mBufferToPurge, mImagesToPurge, stack, destroyed>>
obsVars == <<started, pushed, returned, calls, cbLog, lockOrd, schedIn, takenBy, nPurges>>
cmdVars == <<debugCommands, queue, cmd, callerTrace, execTrace, slog, nOps>>
elemVars == <<etype, epc, esize, ecalls>>
vars    == <<regVars, obsVars, cmdVars, elemVars>>

\* ------------------------------------------------------------------ frames
\* op, pc: the function and the line it is at; item: the argument of
\* schedule*, or the resource a callback releases; buffersToPurge,
\* imagesToPurge, i: the locals of purge() and the position of its range-for.
\* History, per purge(): id numbers the call, returnedAtCall holds the items
\* whose schedule* call had returned when purge() was called, pushedAtLock
\* the items whose push_back had executed when purge() acquired the lock.
Frame(op, pc, item, id, seen) ==
    [op |-> op, pc |-> pc, item |-> item, id |-> id,
     returnedAtCall |-> seen, pushedAtLock |-> {},
     buffersToPurge |-> <<>>, imagesToPurge |-> <<>>, i |-> 0]

Idle(t)      == stack[t] = <<>>
Top(t)       == stack[t][1]
At(t, op, pc) == ~Idle(t) /\ Top(t).op = op /\ Top(t).pc = pc
InCallback(t) == ~Idle(t) /\ Top(t).op = "cb"

SetTop(t, f) == [stack EXCEPT ![t] = <<f>> \o Tail(@)]
Push(t, f)   == [stack EXCEPT ![t] = <<f>> \o @]
Pop(t)       == [stack EXCEPT ![t] = Tail(@)]

\* The purge() activation a callback of thread t runs under: 0 when the top
\* frame is not (a call made by) a callback.
EnclosingPurge(t) ==
    IF Len(stack[t]) >= 2 /\ stack[t][1].op = "cb" THEN stack[t][2].id ELSE 0

\* ------------------------------------------------------------- the registry
\* The next BufferDescriptor / AcquiredImage the program creates: a
\* descriptor is move-only, so each is handed to schedule* once.
FreshBuffers == IF Cardinality(started \cap Buffers) < NumBuffers
                THEN {<<"buffer", Cardinality(started \cap Buffers) + 1>>} ELSE {}
FreshImages  == IF Cardinality(started \cap Images) < NumImages
                THEN {<<"image", Cardinality(started \cap Images) + 1>>} ELSE {}

\* Mutant of PushBack: the element goes in at the front.
PushFront(list, x) == <<x>> \o list

\* std::vector::push_back
PushBack(list, x) == Append(list, x)

\* A caller (a thread at top level, or the release callback it is running)
\* is at a point where it may call into the driver.
MayCall(t) == ~destroyed /\ (Idle(t) \/ InCallback(t))

\* call of purge()
CallPurge(t) ==
    /\ MayCall(t)
    /\ nPurges < MaxPurges
    /\ nPurges' = nPurges + 1
    /\ stack' = Push(t, Frame("purge", "lock", NoItem, nPurges + 1, returned))
    /\ UNCHANGED <<mPurgeLock, mBufferToPurge, mImagesToPurge, destroyed>>
    /\ UNCHANGED <<started, pushed, returned, calls, cbLog, lockOrd, schedIn, takenBy>>
    /\ UNCHANGED <<cmdVars, elemVars>>

\* Mutant of PurgeLock: purge() goes on to the swaps without the mutex.
PurgeLock_NoMutex(t) ==
    /\ At(t, "purge", "lock")
    /\ stack' = SetTop(t, [Top(t) EXCEPT !.pc = "swapB", !.pushedAtLock = pushed])
    /\ UNCHANGED <<mPurgeLock, mBufferToPurge, mImagesToPurge, destroyed>>
    /\ UNCHANGED <<obsVars, cmdVars, elemVars>>

\* std::unique_lock<std::mutex> lock(mPurgeLock);
PurgeLock(t) ==
    /\ At(t, "purge", "lock")
    /\ mPurgeLock = NoThread
    /\ mPurgeLock' = t
    /\ stack' = SetTop(t, [Top(t) EXCEPT !.pc = "swapB", !.pushedAtLock = pushed])
    /\ UNCHANGED <<mBufferToPurge, mImagesToPurge, destroyed>>
    /\ UNCHANGED <<obsVars, cmdVars, elemVars>>

\* Mutant of PurgeSwapBuffers: the lock covers the first swap only and is
\* released before the second.
PurgeSwapBuffers_ThenUnlock(t) ==
    /\ At(t, "purge", "swapB")
    /\ stack' = SetTop(t, [Top(t) EXCEPT !.buffersToPurge = mBufferToPurge,
                                          !.pc = "swapI"])
    /\ mBufferToPurge' = Top(t).buffersToPurge
    /\ mPurgeLock' = NoThread
    /\ takenBy' = [x \in Items |->
                     IF x \in Range(mBufferToPurge) THEN Top(t).id ELSE takenBy[x]]
    /\ UNCHANGED <<mImagesToPurge, destroyed>>
    /\ UNCHANGED <<started, pushed, returned, calls, cbLog, lockOrd, schedIn, nPurges>>
    /\ UNCHANGED <<cmdVars, elemVars>>

\* std::swap(buffersToPurge, mBufferToPurge);
PurgeSwapBuffers(t) ==
    /\ At(t, "purge", "swapB")
    /\ stack' = SetTop(t, [Top(t) EXCEPT !.buffersToPurge = mBufferToPurge,
                                          !.pc = "swapI"])
    /\ mBufferToPurge' = Top(t).buffersToPurge
    /\ takenBy' = [x \in Items |->
                     IF x \in Range(mBufferToPurge) THEN Top(t).id ELSE takenBy[x]]
    /\ UNCHANGED <<mPurgeLock, mImagesToPurge, destroyed>>
    /\ UNCHANGED <<started, pushed, returned, calls, cbLog, lockOrd, schedIn, nPurges>>
    /\ UNCHANGED <<cmdVars, elemVars>>

\* Mutant of PurgeSwapImages: the local is a copy, the member keeps its
\* elements.
PurgeSwapImages_Copy(t) ==
    /\ At(t, "purge", "swapI")
    /\ stack' = SetTop(t, [Top(t) EXCEPT !.imagesToPurge = mImagesToPurge,
                                          !.pc = "unlock"])
    /\ takenBy' = [x \in Items |->
                     IF x \in Range(mImagesToPurge) THEN Top(t).id ELSE takenBy[x]]
    /\ UNCHANGED <<mPurgeLock, mBufferToPurge, mImagesToPurge, destroyed>>
    /\ UNCHANGED <<started, pushed, returned, calls, cbLog, lockOrd, schedIn, nPurges>>
    /\ UNCHANGED <<cmdVars, elemVars>>

\* std::swap(imagesToPurge, mImagesToPurge);
PurgeSwapImages(t) ==
    /\ At(t, "purge", "swapI")
    /\ stack' = SetTop(t, [Top(t) EXCEPT !.imagesToPurge = mImagesToPurge,
                                          !.pc = "unlock"])
    /\ mImagesToPurge' = Top(t).imagesToPurge
    /\ takenBy' = [x \in Items |->
                     IF x \in Range(mImagesToPurge) THEN Top(t).id ELSE takenBy[x]]
    /\ UNCHANGED <<mPurgeLock, mBufferToPurge, destroyed>>
    /\ UNCHANGED <<started, pushed, returned, calls, cbLog, lockOrd, schedIn, nPurges>>
    /\ UNCHANGED <<cmdVars, elemVars>>

\* Mutant of PurgeUnlock: the explicit unlock is removed, so the
\* unique_lock is held until purge() returns.
PurgeUnlock_LockKept(t) ==
    /\ At(t, "purge", "unlock")
    /\ stack' = SetTop(t, [Top(t) EXCEPT !.pc = "images"])
    /\ UNCHANGED <<mPurgeLock, mBufferToPurge, mImagesToPurge, destroyed>>
    /\ UNCHANGED <<obsVars, cmdVars, elemVars>>

\* lock.unlock();
PurgeUnlock(t) ==
    /\ At(t, "purge", "unlock")
    /\ mPurgeLock' = NoThread
    /\ stack' = SetTop(t, [Top(t) EXCEPT !.pc = "images"])
    /\ UNCHANGED <<mBufferToPurge, mImagesToPurge, destroyed>>
    /\ UNCHANGED <<obsVars, cmdVars, elemVars>>

\* Invoking the release callback of item x: control passes to user code.
Invoke(t, f, x) ==
    /\ stack' = [stack EXCEPT ![t] = <<Frame("cb", "run", x, 0, {}), f>> \o Tail(@)]
    /\ calls' = [calls EXCEPT ![x] = @ + 1]
    /\ cbLog' = Append(cbLog, x)

\* The image the range-for of purge() visits next.
NextImage(f) == f.imagesToPurge[f.i + 1]

\* for (auto& image : imagesToPurge) image.callback(image.image, image.userData);
PurgeImageCallback(t) ==
    /\ At(t, "purge", "images")
    /\ Top(t).i < Len(Top(t).imagesToPurge)
    /\ Invoke(t, [Top(t) EXCEPT !.i = @ + 1], NextImage(Top(t)))
    /\ UNCHANGED <<mPurgeLock, mBufferToPurge, mImagesToPurge, destroyed>>
    /\ UNCHANGED <<started, pushed, returned, lockOrd, schedIn, takenBy, nPurges>>
    /\ UNCHANGED <<cmdVars, elemVars>>

\* Mutant of PurgeImagesDone: purge() loops until the pending images are
\* exhausted, taking what its callbacks scheduled meanwhile.
PurgeImagesDone_TakeNew(t) ==
    /\ At(t, "purge", "images")
    /\ Top(t).i = Len(Top(t).imagesToPurge)
    /\ stack' = SetTop(t, [Top(t) EXCEPT
                              !.imagesToPurge = @ \o mImagesToPurge,
                              !.pc = IF mImagesToPurge = <<>> THEN "buffers" ELSE "images"])
    /\ mImagesToPurge' = <<>>
    /\ takenBy' = [x \in Items |->
                     IF x \in Range(mImagesToPurge) THEN Top(t).id ELSE takenBy[x]]
    /\ UNCHANGED <<mPurgeLock, mBufferToPurge, destroyed>>
    /\ UNCHANGED <<started, pushed, returned, calls, cbLog, lockOrd, schedIn, nPurges>>
    /\ UNCHANGED <<cmdVars, elemVars>>

\* the range-for ends: purge() reaches its closing brace
PurgeImagesDone(t) ==
    /\ At(t, "purge", "images")
    /\ Top(t).i = Len(Top(t).imagesToPurge)
    /\ stack' = SetTop(t, [Top(t) EXCEPT !.pc = "buffers"])
    /\ UNCHANGED <<mPurgeLock, mBufferToPurge, mImagesToPurge, destroyed>>
    /\ UNCHANGED <<obsVars, cmdVars, elemVars>>

\* Mutant of PurgeBufferCallback: the buffers are destroyed as soon as the
\* lock is released, possibly before the image callbacks have run.
PurgeBufferCallback_Early(t) ==
    /\ At(t, "purge", "images") \/ At(t, "purge", "buffers")
    /\ Top(t).buffersToPurge # <<>>
    /\ \E k \in {1, Len(Top(t).buffersToPurge)} :
          LET bufs == Top(t).buffersToPurge
              rest == SubSeq(bufs, 1, k - 1) \o SubSeq(bufs, k + 1, Len(bufs))
          IN  Invoke(t, [Top(t) EXCEPT !.buffersToPurge = rest], bufs[k])
    /\ UNCHANGED <<mPurgeLock, mBufferToPurge, mImagesToPurge, destroyed>>
    /\ UNCHANGED <<started, pushed, returned, lockOrd, schedIn, takenBy, nPurges>>
    /\ UNCHANGED <<cmdVars, elemVars>>

\* buffersToPurge goes out of scope: ~BufferDescriptor invokes the callback.
\* The standard leaves the order in which a vector destroys its elements
\* open (first to last, or last to first): either end may go next.
PurgeBufferCallback(t) ==
    /\ At(t, "purge", "buffers")
    /\ Top(t).buffersToPurge # <<>>
    /\ \E k \in {1, Len(Top(t).buffersToPurge)} :
          LET bufs == Top(t).buffersToPurge
              rest == SubSeq(bufs, 1, k - 1) \o SubSeq(bufs, k + 1, Len(bufs))
          IN  Invoke(t, [Top(t) EXCEPT !.buffersToPurge = rest], bufs[k])
    /\ UNCHANGED <<mPurgeLock, mBufferToPurge, mImagesToPurge, destroyed>>
    /\ UNCHANGED <<started, pushed, returned, lockOrd, schedIn, takenBy, nPurges>>
    /\ UNCHANGED <<cmdVars, elemVars>>

\* purge() has destroyed its locals
PurgeDone(f) == f.op = "purge" /\ f.pc = "buffers" /\ f.buffersToPurge = <<>>

\* purge() is about to return on thread t
Returning(t) == ~Idle(t) /\ PurgeDone(Top(t))

\* purge() returns
PurgeReturn(t) ==
    /\ Returning(t)
    /\ stack' = Pop(t)
    /\ UNCHANGED <<mPurgeLock, mBufferToPurge, mImagesToPurge, destroyed>>
    /\ UNCHANGED <<obsVars, cmdVars, elemVars>>

\* call of scheduleDestroySlow(std::move(buffer))
CallScheduleDestroySlow(t) ==
    /\ MayCall(t)
    /\ \E b \in FreshBuffers :
          /\ started' = started \cup {b}
          /\ schedIn' = [schedIn EXCEPT ![b] = EnclosingPurge(t)]
          /\ stack' = Push(t, Frame("scheduleDestroySlow", "lock", b, 0, {}))
    /\ UNCHANGED <<mPurgeLock, mBufferToPurge, mImagesToPurge, destroyed>>
    /\ UNCHANGED <<pushed, returned, calls, cbLog, lockOrd, takenBy, nPurges>>
    /\ UNCHANGED <<cmdVars, elemVars>>

\* call of scheduleRelease(std::move(image))
CallScheduleRelease(t) ==
    /\ MayCall(t)
    /\ \E im \in FreshImages :
          /\ started' = started \cup {im}
          /\ schedIn' = [schedIn EXCEPT ![im] = EnclosingPurge(t)]
          /\ stack' = Push(t, Frame("scheduleRelease", "lock", im, 0, {}))
    /\ UNCHANGED <<mPurgeLock, mBufferToPurge, mImagesToPurge, destroyed>>
    /\ UNCHANGED <<pushed, returned, calls, cbLog, lockOrd, takenBy, nPurges>>
    /\ UNCHANGED <<cmdVars, elemVars>>

InSchedule(t, pc) ==
    At(t, "scheduleDestroySlow", pc) \/ At(t, "scheduleRelease", pc)

\* std::lock_guard<std::mutex> lock(mPurgeLock);
ScheduleLock(t) ==
    /\ InSchedule(t, "lock")
    /\ mPurgeLock = NoThread
    /\ mPurgeLock' = t
    /\ stack' = SetTop(t, [Top(t) EXCEPT !.pc = "push"])
    /\ lockOrd' = IF IsImage(Top(t).item) THEN Append(lockOrd, Top(t).item) ELSE lockOrd
    /\ UNCHANGED <<mBufferToPurge, mImagesToPurge, destroyed>>
    /\ UNCHANGED <<started, pushed, returned, calls, cbLog, schedIn, takenBy, nPurges>>
    /\ UNCHANGED <<cmdVars, elemVars>>

\* mBufferToPurge.push_back(std::move(buffer));
ScheduleDestroySlowPush(t) ==
    /\ At(t, "scheduleDestroySlow", "push")
    /\ mBufferToPurge' = PushBack(mBufferToPurge, Top(t).item)
    /\ pushed' = pushed \cup {Top(t).item}
    /\ stack' = SetTop(t, [Top(t) EXCEPT !.pc = "unlock"])
    /\ UNCHANGED <<mPurgeLock, mImagesToPurge, destroyed>>
    /\ UNCHANGED <<started, returned, calls, cbLog, lockOrd, schedIn, takenBy, nPurges>>
    /\ UNCHANGED <<cmdVars, elemVars>>

\* mImagesToPurge.push_back(std::move(image));
ScheduleReleasePush(t) ==
    /\ At(t, "scheduleRelease", "push")
    /\ mImagesToPurge' = PushBack(mImagesToPurge, Top(t).item)
    /\ pushed' = pushed \cup {Top(t).item}
    /\ stack' = SetTop(t, [Top(t) EXCEPT !.pc = "unlock"])
    /\ UNCHANGED <<mPurgeLock, mBufferToPurge, destroyed>>
    /\ UNCHANGED <<started, returned, calls, cbLog, lockOrd, schedIn, takenBy, nPurges>>
    /\ UNCHANGED <<cmdVars, elemVars>>

\* ~lock_guard releases the mutex and schedule* returns
ScheduleReturn(t) ==
    /\ InSchedule(t, "unlock")
    /\ mPurgeLock' = NoThread
    /\ returned' = returned \cup {Top(t).item}
    /\ stack' = Pop(t)
    /\ UNCHANGED <<mBufferToPurge, mImagesToPurge, destroyed>>
    /\ UNCHANGED <<started, pushed, calls, cbLog, lockOrd, schedIn, takenBy, nPurges>>
    /\ UNCHANGED <<cmdVars, elemVars>>

\* the release callback returns to purge()
CallbackReturn(t) ==
    /\ InCallback(t)
    /\ stack' = Pop(t)
    /\ UNCHANGED <<mPurgeLock, mBufferToPurge, mImagesToPurge, destroyed>>
    /\ UNCHANGED <<obsVars, cmdVars, elemVars>>

Reverse(s) == [k \in 1..Len(s) |-> s[Len(s) + 1 - k]]

\* ~DriverBase: `delete mDispatcher`, then the members are destroyed.  The
\* BufferDescriptors still in mBufferToPurge invoke their callbacks from
\* their destructors (in either order); an AcquiredImage has no destructor
\* that would, so the images still in mImagesToPurge are dropped.  Neither
\* purge() nor the command stream is touched.
Destroy ==
    /\ ~destroyed
    /\ \A t \in Threads : Idle(t)
    /\ destroyed' = TRUE
    /\ calls' = [x \in Items |->
                   IF x \in Range(mBufferToPurge) THEN calls[x] + 1 ELSE calls[x]]
    /\ \E order \in {mBufferToPurge, Reverse(mBufferToPurge)} :
          cbLog' = cbLog \o order
    /\ mBufferToPurge' = <<>>
    /\ mImagesToPurge' = <<>>
    /\ UNCHANGED <<mPurgeLock, stack>>
    /\ UNCHANGED <<started, pushed, returned, lockOrd, schedIn, takenBy, nPurges>>
    /\ UNCHANGED <<cmdVars, elemVars>>

\* ------------------------------------------------- debug-command markers
\* A driver call goes through the command stream in three steps on the
\* calling thread: debugCommandBegin, the work (run at once when the call is
\* synchronous, queued as a command otherwise), debugCommandEnd.  The
\* execution thread runs the queued commands first in, first out.
Methods == {"draw", "readPixels"}

BeginMarker(methodName) == [m |-> "begin", name |-> methodName]   \* SYSTRACE_NAME_BEGIN(methodName)
EndMarker               == [m |-> "end",   name |-> ""]           \* SYSTRACE_NAME_END()
Work(methodName)        == [m |-> "run",   name |-> methodName]   \* the driver method itself

\* FILAMENT_DEBUG_COMMANDS > FILAMENT_DEBUG_COMMANDS_NONE
DebugCommandsOn == debugCommands.log \/ debugCommands.systrace

\* cmds->queueCommand(c)
QueueCommand(q, c) == Append(q, c)

\* the calling thread enters a driver method of the command stream
CallDriverMethod ==
    /\ cmd.pc = "idle"
    /\ nOps < MaxOps
    /\ nOps' = nOps + 1
    /\ \E name \in Methods, synchronous \in BOOLEAN :
          cmd' = [name |-> name, synchronous |-> synchronous, pc |-> "begin"]
    /\ UNCHANGED <<debugCommands, queue, callerTrace, execTrace, slog>>
    /\ UNCHANGED <<regVars, obsVars, elemVars>>

\* Mutant of DebugCommandBegin: the begin marker is queued whether or not
\* the call is synchronous.
DebugCommandBegin_AlwaysQueued ==
    /\ cmd.pc = "begin"
    /\ cmd' = [cmd EXCEPT !.pc = "work"]
    /\ slog' = IF DebugCommandsOn /\ debugCommands.log THEN Append(slog, cmd.name) ELSE slog
    /\ IF DebugCommandsOn /\ debugCommands.systrace
         THEN /\ callerTrace' = Append(callerTrace, BeginMarker(cmd.name))
              /\ queue' = QueueCommand(queue, BeginMarker(cmd.name))
         ELSE UNCHANGED <<callerTrace, queue>>
    /\ UNCHANGED <<debugCommands, execTrace, nOps>>
    /\ UNCHANGED <<regVars, obsVars, elemVars>>

\* Mutant of DebugCommandBegin: the begin marker of an asynchronous call is
\* queued only, the calling thread emits none.
DebugCommandBegin_QueuedOnly ==
    /\ cmd.pc = "begin"
    /\ cmd' = [cmd EXCEPT !.pc = "work"]
    /\ slog' = IF DebugCommandsOn /\ debugCommands.log THEN Append(slog, cmd.name) ELSE slog
    /\ IF DebugCommandsOn /\ debugCommands.systrace
         THEN IF ~cmd.synchronous
                 THEN /\ queue' = QueueCommand(queue, BeginMarker(cmd.name))
                      /\ callerTrace' = callerTrace
                 ELSE /\ callerTrace' = Append(callerTrace, BeginMarker(cmd.name))
                      /\ queue' = queue
         ELSE UNCHANGED <<callerTrace, queue>>
    /\ UNCHANGED <<debugCommands, execTrace, nOps>>
    /\ UNCHANGED <<regVars, obsVars, elemVars>>

\* DriverBase::debugCommandBegin(cmds, synchronous, methodName)
DebugCommandBegin ==
    /\ cmd.pc = "begin"
    /\ cmd' = [cmd EXCEPT !.pc = "work"]
    /\ slog' = IF DebugCommandsOn /\ debugCommands.log THEN Append(slog, cmd.name) ELSE slog
    /\ IF DebugCommandsOn /\ debugCommands.systrace
         THEN /\ callerTrace' = Append(callerTrace, BeginMarker(cmd.name))
              /\ queue' = IF ~cmd.synchronous
                             THEN QueueCommand(queue, BeginMarker(cmd.name))
                             ELSE queue
         ELSE UNCHANGED <<callerTrace, queue>>
    /\ UNCHANGED <<debugCommands, execTrace, nOps>>
    /\ UNCHANGED <<regVars, obsVars, elemVars>>

\* the work of the driver method: run on the calling thread when the method
\* is synchronous, queued for the execution thread otherwise
IssueWork ==
    /\ cmd.pc = "work"
    /\ cmd' = [cmd EXCEPT !.pc = "end"]
    /\ IF cmd.synchronous
         THEN callerTrace' = Append(callerTrace, Work(cmd.name)) /\ queue' = queue
         ELSE queue' = QueueCommand(queue, Work(cmd.name)) /\ callerTrace' = callerTrace
    /\ UNCHANGED <<debugCommands, execTrace, slog, nOps>>
    /\ UNCHANGED <<regVars, obsVars, elemVars>>

\* Mutant of DebugCommandEnd: the test of FILAMENT_DEBUG_COMMANDS is gone,
\* the markers are emitted whatever the configuration.
DebugCommandEnd_Unguarded ==
    /\ cmd.pc = "end"
    /\ cmd' = [cmd EXCEPT !.pc = "idle"]
    /\ queue' = IF ~cmd.synchronous THEN QueueCommand(queue, EndMarker) ELSE queue
    /\ callerTrace' = Append(callerTrace, EndMarker)
    /\ UNCHANGED <<debugCommands, execTrace, slog, nOps>>
    /\ UNCHANGED <<regVars, obsVars, elemVars>>

\* Mutant of DebugCommandEnd: the end marker is emitted on the calling
\* thread only, never queued.
DebugCommandEnd_NeverQueued ==
    /\ cmd.pc = "end"
    /\ cmd' = [cmd EXCEPT !.pc = "idle"]
    /\ IF DebugCommandsOn /\ debugCommands.systrace
         THEN callerTrace' = Append(callerTrace, EndMarker) /\ queue' = queue
         ELSE UNCHANGED <<callerTrace, queue>>
    /\ UNCHANGED <<debugCommands, execTrace, slog, nOps>>
    /\ UNCHANGED <<regVars, obsVars, elemVars>>

\* DriverBase::debugCommandEnd(cmds, synchronous, methodName)
DebugCommandEnd ==
    /\ cmd.pc = "end"
    /\ cmd' = [cmd EXCEPT !.pc = "idle"]
    /\ IF DebugCommandsOn /\ debugCommands.systrace
         THEN /\ queue' = IF ~cmd.synchronous THEN QueueCommand(queue, EndMarker) ELSE queue
              /\ callerTrace' = Append(callerTrace, EndMarker)
         ELSE UNCHANGED <<callerTrace, queue>>
    /\ UNCHANGED <<debugCommands, execTrace, slog, nOps>>
    /\ UNCHANGED <<regVars, obsVars, elemVars>>

\* Mutant of ExecuteNext: the execution thread runs the newest queued
\* command.
ExecuteNext_Newest ==
    /\ queue # <<>>
    /\ execTrace' = Append(execTrace, queue[Len(queue)])
    /\ queue' = SubSeq(queue, 1, Len(queue) - 1)
    /\ UNCHANGED <<debugCommands, cmd, callerTrace, slog, nOps>>
    /\ UNCHANGED <<regVars, obsVars, elemVars>>

\* the execution thread runs the oldest queued command
ExecuteNext ==
    /\ queue # <<>>
    /\ execTrace' = Append(execTrace, Head(queue))
    /\ queue' = Tail(queue)
    /\ UNCHANGED <<debugCommands, cmd, callerTrace, slog, nOps>>
    /\ UNCHANGED <<regVars, obsVars, elemVars>>

\* -------------------------------------------------------- Driver::execute
\* The callables handed to Driver::execute.
ExecFns == {"fn"}

\* call of Driver::execute(fn)
CallExecute ==
    /\ cmd.pc = "idle"
    /\ nOps < MaxOps
    /\ nOps' = nOps + 1
    /\ \E fn \in ExecFns :
          cmd' = [name |-> fn, synchronous |-> TRUE, pc |-> "execute"]
    /\ UNCHANGED <<debugCommands, queue, callerTrace, execTrace, slog>>
    /\ UNCHANGED <<regVars, obsVars, elemVars>>

\* Mutant of DriverExecute: fn is queued as a command instead of being run.
DriverExecute_Queued ==
    /\ cmd.pc = "execute"
    /\ cmd' = [cmd EXCEPT !.pc = "idle"]
    /\ queue' = QueueCommand(queue, Work(cmd.name))
    /\ UNCHANGED <<debugCommands, callerTrace, execTrace, slog, nOps>>
    /\ UNCHANGED <<regVars, obsVars, elemVars>>

\* Driver::execute: fn(); and return
DriverExecute ==
    /\ cmd.pc = "execute"
    /\ cmd' = [cmd EXCEPT !.pc = "idle"]
    /\ callerTrace' = Append(callerTrace, Work(cmd.name))
    /\ UNCHANGED <<debugCommands, queue, execTrace, slog, nOps>>
    /\ UNCHANGED <<regVars, obsVars, elemVars>>

\* ------------------------------------------------------ getElementTypeSize
ElementTypes ==
    {"BYTE", "BYTE2", "BYTE3", "BYTE4", "UBYTE", "UBYTE2", "UBYTE3", "UBYTE4",
     "SHORT", "SHORT2", "SHORT3", "SHORT4", "USHORT", "USHORT2", "USHORT3", "USHORT4",
     "INT", "UINT", "FLOAT", "FLOAT2", "FLOAT3", "FLOAT4",
     "HALF", "HALF2", "HALF3", "HALF4"}

\* Values of the underlying integer type that name no enumerator.
InvalidTypes == {"INVALID_26", "INVALID_255"}

\* Mutant of SizeofScalar: a half is taken to be as wide as a float.
SizeofScalar_WideHalf(scalar) ==
    CASE scalar \in {"int8_t", "uint8_t"}   -> 1
      [] scalar \in {"int16_t", "uint16_t"} -> 2
      [] scalar \in {"int32_t", "uint32_t", "float", "half"} -> 4

\* sizeof of the scalar types the switch names
SizeofScalar(scalar) ==
    CASE scalar \in {"int8_t", "uint8_t"}           -> 1
      [] scalar \in {"int16_t", "uint16_t", "half"} -> 2
      [] scalar \in {"int32_t", "uint32_t", "float"} -> 4

\* sizeof of math::vecN<scalar>: N scalars, no padding
SizeofVec(n, scalar) == n * SizeofScalar(scalar)

\* the switch of getElementTypeSize, case by case
ElementTypeSize(type) ==
    CASE type = "BYTE"    -> SizeofScalar("int8_t")
      [] type = "BYTE2"   -> SizeofVec(2, "int8_t")
      [] type = "BYTE3"   -> SizeofVec(3, "int8_t")
      [] type = "BYTE4"   -> SizeofVec(4, "int8_t")
      [] type = "UBYTE"   -> SizeofScalar("uint8_t")
      [] type = "UBYTE2"  -> SizeofVec(2, "uint8_t")
      [] type = "UBYTE3"  -> SizeofVec(3, "uint8_t")
      [] type = "UBYTE4"  -> SizeofVec(4, "uint8_t")
      [] type = "SHORT"   -> SizeofScalar("int16_t")
      [] type = "SHORT2"  -> SizeofVec(2, "int16_t")
      [] type = "SHORT3"  -> SizeofVec(3, "int16_t")
      [] type = "SHORT4"  -> SizeofVec(4, "int16_t")
      [] type = "USHORT"  -> SizeofScalar("uint16_t")
      [] type = "USHORT2" -> SizeofVec(2, "uint16_t")
      [] type = "USHORT3" -> SizeofVec(3, "uint16_t")
      [] type = "USHORT4" -> SizeofVec(4, "uint16_t")
      [] type = "INT"     -> SizeofScalar("int32_t")
      [] type = "UINT"    -> SizeofScalar("uint32_t")
      [] type = "FLOAT"   -> SizeofScalar("float")
      [] type = "FLOAT2"  -> SizeofVec(2, "float")
      [] type = "FLOAT3"  -> SizeofVec(3, "float")
      [] type = "FLOAT4"  -> SizeofVec(4, "float")
      [] type = "HALF"    -> SizeofScalar("half")
      [] type = "HALF2"   -> SizeofVec(2, "half")
      [] type = "HALF3"   -> SizeofVec(3, "half")
      [] type = "HALF4"   -> SizeofVec(4, "half")

\* a caller passes a value to getElementTypeSize
CallGetElementTypeSize ==
    /\ epc \in {"idle", "ret"}
    /\ ecalls < MaxElemCalls
    /\ ecalls' = ecalls + 1
    /\ etype' \in ElementTypes \cup InvalidTypes
    /\ epc' = "call"
    /\ esize' = esize
    /\ UNCHANGED <<regVars, obsVars, cmdVars>>

\* Driver::getElementTypeSize(type).  The switch has no default and nothing
\* follows it: for a value that names no enumerator control flows off the
\* end of a function returning size_t, which is undefined behaviour.  The
\* build may trap there or return whatever the register holds.
GetElementTypeSize ==
    /\ epc = "call"
    /\ IF etype \in ElementTypes
         THEN epc' = "ret" /\ esize' = ElementTypeSize(etype)
         ELSE \/ epc' = "trap" /\ esize' = esize
              \/ epc' = "ret" /\ esize' \in 0..MaxGarbage
    /\ UNCHANGED <<etype, ecalls>>
    /\ UNCHANGED <<regVars, obsVars, cmdVars>>

\* ------------------------------------------------------------ initial state
InitRegistry ==
    /\ mPurgeLock = NoThread
    /\ mBufferToPurge = <<>>
    /\ mImagesToPurge = <<>>
    /\ stack = [t \in Threads |-> <<>>]
    /\ destroyed = FALSE
    /\ started = {}
    /\ pushed = {}
    /\ returned = {}
    /\ calls = [x \in Items |-> 0]
    /\ cbLog = <<>>
    /\ lockOrd = <<>>
    /\ schedIn = [x \in Items |-> 0]
    /\ takenBy = [x \in Items |-> 0]
    /\ nPurges = 0

NoCmd == [name |-> "none", synchronous |-> FALSE, pc |-> "idle"]

InitCommandsOff ==
    /\ debugCommands = [log |-> FALSE, systrace |-> FALSE]
    /\ queue = <<>>
    /\ cmd = NoCmd
    /\ callerTrace = <<>>
    /\ execTrace = <<>>
    /\ slog = <<>>
    /\ nOps = 0

InitElementOff ==
    /\ etype = "BYTE"
    /\ epc = "idle"
    /\ esize = 0
    /\ ecalls = 0

\* ----------------------------------------------------- the registry's runs
\* "This is called from an async driver method so it's in the GL thread, but
\* purge is called on the user thread": the GL thread schedules releases,
\* the user thread calls purge(), and the release callbacks purge() runs on
\* the user thread may themselves schedule releases.
UserStep ==
    \/ Idle("user") /\ CallPurge("user")
    \/ InCallback("user") /\ CallScheduleDestroySlow("user")
    \/ InCallback("user") /\ CallScheduleRelease("user")
    \/ CallbackReturn("user")

GLStep ==
    \/ CallScheduleDestroySlow("gl")
    \/ CallScheduleRelease("gl")

Step(t) ==
    \/ PurgeLock(t)
    \/ PurgeSwapBuffers(t)
    \/ PurgeSwapImages(t)
    \/ PurgeUnlock(t)
    \/ PurgeImageCallback(t)
    \/ PurgeImagesDone(t)
    \/ PurgeBufferCallback(t)
    \/ PurgeReturn(t)
    \/ ScheduleLock(t)
    \/ ScheduleDestroySlowPush(t)
    \/ ScheduleReleasePush(t)
    \/ ScheduleReturn(t)

Next ==
    \/ UserStep
    \/ GLStep
    \/ \E t \in Threads : Step(t)
    \/ Destroy

Init == InitRegistry /\ InitCommandsOff /\ InitElementOff

Spec == Init /\ [][Next]_vars

\* A thread that can take a step of purge() or schedule* takes it, and a
\* release callback returns (the callbacks of C3 are those that terminate).
\* Nothing obliges the program to make a further call.
FairSpec ==
    /\ Spec
    /\ \A t \in Threads : WF_vars(Step(t)) /\ WF_vars(CallbackReturn(t))

\* -------------------------------------------- runs with concurrent purges
\* Nothing in DriverBase ties purge() to one thread: here either thread, and
\* any release callback, may call purge() as well as schedule*.
NextConc ==
    \/ \E t \in Threads : CallPurge(t)
    \/ \E t \in Threads : CallScheduleDestroySlow(t)
    \/ \E t \in Threads : CallScheduleRelease(t)
    \/ \E t \in Threads : CallbackReturn(t)
    \/ \E t \in Threads : Step(t)

SpecConc == Init /\ [][NextConc]_vars

\* ------------------------------------------- the command stream's runs
InitCommands ==
    /\ debugCommands \in [log : BOOLEAN, systrace : BOOLEAN]
    /\ queue = <<>>
    /\ cmd = NoCmd
    /\ callerTrace = <<>>
    /\ execTrace = <<>>
    /\ slog = <<>>
    /\ nOps = 0

NextCmd ==
    \/ CallDriverMethod
    \/ DebugCommandBegin
    \/ IssueWork
    \/ DebugCommandEnd
    \/ ExecuteNext
    \/ CallExecute
    \/ DriverExecute

InitCmd == InitRegistry /\ InitCommands /\ InitElementOff

SpecCmd == InitCmd /\ [][NextCmd]_vars

\* ------------------------------------------ the runs of getElementTypeSize
NextElem ==
    \/ CallGetElementTypeSize
    \/ GetElementTypeSize

SpecElem == Init /\ [][NextElem]_vars

\* =================================================================== claims
PurgeFrames == {f \in UNION {Range(stack[t]) : t \in Threads} : f.op = "purge"}
InPurge(t)  == \E k \in 1..Len(stack[t]) : stack[t][k].op = "purge"
Pending     == Range(mBufferToPurge) \cup Range(mImagesToPurge)
InCriticalSection(t) ==
    \/ At(t, "purge", "swapB") \/ At(t, "purge", "swapI") \/ At(t, "purge", "unlock")
    \/ InSchedule(t, "push") \/ InSchedule(t, "unlock")

\* C1: no release callback runs while the thread running it holds
\* mPurgeLock, and whoever holds the lock is inside the swap of purge() or
\* the push_back of schedule*, never in or waiting for a callback: a
\* schedule* call never waits for a callback to finish.
C1_NoCallbackUnderLock ==
    \A t \in Threads :
        /\ InCallback(t) => mPurgeLock # t
        /\ mPurgeLock = t => InCriticalSection(t)

\* C1 witness: a callback is running on the user thread while the GL thread
\* has acquired the lock in schedule*.
C1_Witness ==
    /\ InCallback("user")
    /\ mPurgeLock = "gl"
    /\ InSchedule("gl", "unlock")

\* C2: no callback is ever invoked twice, and when purge() returns every
\* release whose schedule* call had returned before purge() was called has
\* had its callback invoked exactly once.
C2_ExactlyOnce ==
    /\ \A x \in Items : calls[x] <= 1
    /\ \A t \in Threads :
          Returning(t) => \A x \in Top(t).returnedAtCall : calls[x] = 1

\* C2 witness: the second purge() is about to return, and a buffer and an
\* image had been scheduled before it was called.
C2_Witness ==
    \E t \in Threads :
        /\ Returning(t)
        /\ Top(t).id = 2
        /\ \E b \in Buffers, im \in Images : {b, im} \subseteq Top(t).returnedAtCall
        /\ \E x \in Top(t).returnedAtCall : takenBy[x] = 2

\* C3: every purge() terminates, whatever its callbacks schedule and
\* whatever the other thread schedules meanwhile.
C3_PurgeTerminates == \A t \in Threads : InPurge(t) ~> Idle(t)

\* C3 witness: a release callback run by purge() has called schedule* and
\* holds the lock.
C3_Witness ==
    /\ Len(stack["user"]) = 3
    /\ InSchedule("user", "push")
    /\ mPurgeLock = "user"

\* C4: an item scheduled by a callback of purge() number p is never taken
\* by p; it is pending and unreleased when p returns, and purge() number
\* p + 1 takes it and invokes its callback.
C4_DeferredToNextPurge ==
    /\ \A x \in Items : schedIn[x] # 0 => takenBy[x] # schedIn[x]
    /\ \A t \in Threads : Returning(t) =>
          \A x \in Items :
              /\ schedIn[x] = Top(t).id => x \in Pending /\ calls[x] = 0
              /\ (schedIn[x] # 0 /\ schedIn[x] < Top(t).id) =>
                     takenBy[x] = schedIn[x] + 1 /\ calls[x] = 1

\* C4 witness: the second purge() is about to return and has released an
\* item that a callback of the first one scheduled.
C4_Witness ==
    \E t \in Threads :
        /\ Returning(t)
        /\ Top(t).id = 2
        /\ \E x \in Items : schedIn[x] = 1 /\ takenBy[x] = 2 /\ calls[x] = 1

\* C5 (as claimed): once the driver is destroyed, no queued command and no
\* scheduled release is left without having been run.
C5_TeardownAbandonsNothing ==
    destroyed => /\ queue = <<>>
                 /\ \A x \in pushed : calls[x] = 1

\* C6 (as claimed): a purge() takes an item only if the item's schedule*
\* call had returned before that purge() was called.
C6_TakenOnlyIfReturnedBeforeCall ==
    \A f \in PurgeFrames :
        \A x \in Items : takenBy[x] = f.id => x \in f.returnedAtCall

\* C6 (amended): a purge() takes an item only if the item's push_back had
\* executed before that purge() acquired mPurgeLock.
C6_TakenOnlyIfPushedBeforeLock ==
    \A f \in PurgeFrames :
        \A x \in Items : takenBy[x] = f.id => x \in f.pushedAtLock

\* C6 witness: a purge() has taken an item whose schedule* call had not
\* returned when that purge() was called.
C6_Witness ==
    \E f \in PurgeFrames :
        \E x \in Items : takenBy[x] = f.id /\ x \notin f.returnedAtCall

\* C9: the image callbacks are invoked in the order in which the
\* scheduleRelease calls acquired the lock.
C9_ImagesInLockOrder == IsPrefix(SelectSeq(cbLog, IsImage), lockOrd)

\* C9 witness: two images whose scheduleRelease calls acquired the lock in
\* the order opposite to the one they were called in have both been released.
C9_Witness ==
    /\ lockOrd = << <<"image", 2>>, <<"image", 1>> >>
    /\ SelectSeq(cbLog, IsImage) = lockOrd
    /\ takenBy[<<"image", 1>>] = takenBy[<<"image", 2>>]

\* Everything ever queued, oldest first: what the execution thread has run,
\* then what it has yet to run.
Submitted == execTrace \o queue

\* Each piece of work in s has the begin marker of its method right before
\* it and, unless it is the last element, the end marker right after it.
Bracketed(s) ==
    \A k \in 1..Len(s) :
        s[k].m = "run" =>
            /\ k > 1
            /\ s[k - 1] = BeginMarker(s[k].name)
            /\ k < Len(s) => s[k + 1] = EndMarker

C8_SyncMarkersImmediate ==
    [][ (debugCommands.systrace /\ cmd.synchronous) =>
          /\ (cmd.pc = "begin" /\ cmd'.pc = "work") =>
                 (queue' = queue /\ callerTrace' = Append(callerTrace, BeginMarker(cmd.name)))
          /\ (cmd.pc = "end" /\ cmd'.pc = "idle") =>
                 (queue' = queue /\ callerTrace' = Append(callerTrace, EndMarker)) ]_vars

\* C8 witness: a synchronous call has completed with trace markers on while
\* commands of an earlier call were still queued.
C8_Witness ==
    /\ debugCommands.systrace
    /\ cmd.synchronous
    /\ cmd.pc = "idle"
    /\ queue # <<>>
    /\ Len(callerTrace) >= 3
    /\ callerTrace[Len(callerTrace)] = EndMarker
    /\ callerTrace[Len(callerTrace) - 1] = Work(cmd.name)
    /\ callerTrace[Len(callerTrace) - 2] = BeginMarker(cmd.name)

\* C10: for every enumerator getElementTypeSize returns the documented
\* byte count, it returns for every enumerator, and the call leaves the
\* driver's registry and command stream as they were.
C10_ElementSizeTable ==
    LET documented ==
          [BYTE |-> 1, UBYTE |-> 1, BYTE2 |-> 2, UBYTE2 |-> 2, BYTE3 |-> 3, UBYTE3 |-> 3,
           BYTE4 |-> 4, UBYTE4 |-> 4, SHORT |-> 2, USHORT |-> 2, HALF |-> 2,
           SHORT2 |-> 4, USHORT2 |-> 4, HALF2 |-> 4, SHORT3 |-> 6, USHORT3 |-> 6,
           HALF3 |-> 6, SHORT4 |-> 8, USHORT4 |-> 8, HALF4 |-> 8,
           INT |-> 4, UINT |-> 4, FLOAT |-> 4, FLOAT2 |-> 8, FLOAT3 |-> 12, FLOAT4 |-> 16]
    IN  /\ DOMAIN documented = ElementTypes
        /\ (etype \in ElementTypes /\ epc \notin {"idle", "call"}) =>
               (epc = "ret" /\ esize = documented[etype])
        /\ InitRegistry /\ InitCommandsOff

\* C10 witness: a second call has returned 6 for HALF3.
C10_Witness ==
    /\ ecalls = 2
    /\ etype = "HALF3"
    /\ epc = "ret"
    /\ esize = 6

\* C11 (as claimed): a call of getElementTypeSize with a value that names
\* no enumerator never returns a size to its caller.
C11_InvalidTypeIsFatal == etype \in InvalidTypes => epc # "ret"

ScheduleOps == {"scheduleDestroySlow", "scheduleRelease"}

\* C12: the push_back step of scheduleDestroySlow appends its buffer at the
\* end of mBufferToPurge and leaves mImagesToPurge alone, the one of
\* scheduleRelease appends its image at the end of mImagesToPurge and leaves
\* mBufferToPurge alone, each with mPurgeLock held by the caller; no other
\* step of a schedule* call changes either list, and none invokes a callback.
C12_ScheduleAppendsUnderLock ==
    [][ \A t \in Threads :
          /\ (~Idle(t) /\ Top(t).op \in ScheduleOps /\ stack'[t] # stack[t]) =>
                /\ calls' = calls
                /\ cbLog' = cbLog
                /\ (Top(t).pc = "push" /\ Top(t).op = "scheduleDestroySlow") =>
                       /\ mPurgeLock = t
                       /\ mBufferToPurge' = Append(mBufferToPurge, Top(t).item)
                       /\ mImagesToPurge' = mImagesToPurge
                /\ (Top(t).pc = "push" /\ Top(t).op = "scheduleRelease") =>
                       /\ mPurgeLock = t
                       /\ mImagesToPurge' = Append(mImagesToPurge, Top(t).item)
                       /\ mBufferToPurge' = mBufferToPurge
                /\ Top(t).pc # "push" =>
                       /\ mBufferToPurge' = mBufferToPurge
                       /\ mImagesToPurge' = mImagesToPurge
          /\ (stack'[t] # <<>> /\ stack'[t] # stack[t]
                /\ stack'[t][1].op \in ScheduleOps /\ stack'[t][1].pc = "lock") =>
                /\ calls' = calls
                /\ mBufferToPurge' = mBufferToPurge
                /\ mImagesToPurge' = mImagesToPurge ]_vars

\* C12 witness: scheduleDestroySlow has appended a second buffer behind the
\* first while an image was pending, and still holds the lock.
C12_Witness ==
    /\ At("gl", "scheduleDestroySlow", "unlock")
    /\ mPurgeLock = "gl"
    /\ Len(mBufferToPurge) = 2
    /\ mBufferToPurge[2] = Top("gl").item
    /\ mImagesToPurge # <<>>

\* C13: Driver::execute(fn) runs fn once, on the calling thread, in the step
\* in which it returns: nothing runs fn before that, the command queue and
\* the execution thread's trace are untouched by the call, and fn is never
\* among the queued or executed commands.
C13_ExecuteRunsInline ==
    [][ /\ (cmd.pc # "execute" /\ cmd'.pc = "execute") =>
              (callerTrace' = callerTrace /\ queue' = queue /\ execTrace' = execTrace)
        /\ (cmd.pc = "execute" /\ cmd' = cmd) => callerTrace' = callerTrace
        /\ (cmd.pc = "execute" /\ cmd' # cmd) =>
              /\ cmd'.pc = "idle"
              /\ callerTrace' = Append(callerTrace, Work(cmd.name))
              /\ queue' = queue
              /\ execTrace' = execTrace
        /\ \A k \in 1..Len(queue') : queue'[k].name \notin ExecFns
        /\ \A k \in 1..Len(execTrace') : execTrace'[k].name \notin ExecFns ]_vars

\* C13 witness: execute(fn) has returned, fn having run on the calling
\* thread while commands submitted earlier were still queued.
C13_Witness ==
    /\ cmd.pc = "idle"
    /\ cmd.name \in ExecFns
    /\ callerTrace # <<>>
    /\ callerTrace[Len(callerTrace)] = Work(cmd.name)
    /\ queue # <<>>

BeginStep == cmd.pc = "begin" /\ cmd'.pc = "work"   \* a step of debugCommandBegin
EndStep   == cmd.pc = "end" /\ cmd'.pc = "idle"     \* a step of debugCommandEnd

\* C14: unless SYSTRACE is set, debugCommandBegin and debugCommandEnd emit
\* no marker and queue no command, whether the call is synchronous or not;
\* with neither LOG nor SYSTRACE set they also log nothing.
C14_NoMarkersUnlessSystrace ==
    [][ (~debugCommands.systrace /\ (BeginStep \/ EndStep)) =>
          /\ queue' = queue
          /\ callerTrace' = callerTrace
          /\ execTrace' = execTrace
          /\ ~debugCommands.log => slog' = slog ]_vars

\* C14 witness: in the log-only configuration an asynchronous call has
\* completed: its name is logged, its work is queued, no marker exists.
C14_Witness ==
    /\ debugCommands = [log |-> TRUE, systrace |-> FALSE]
    /\ cmd.pc = "idle"
    /\ cmd.name \in Methods
    /\ ~cmd.synchronous
    /\ slog # <<>>
    /\ queue = <<Work(cmd.name)>>
    /\ execTrace = <<>>
    /\ \A k \in 1..Len(callerTrace) : callerTrace[k].m = "run"

\* C15: the sequence of everything submitted only ever grows at its end,
\* and what the execution thread has run is always a prefix of it that
\* grows by one command at a time: every command runs once, in the order of
\* submission, marker commands included.
C15_ExecutedInSubmissionOrder ==
    [][ /\ IsPrefix(Submitted, Submitted')
        /\ Len(Submitted') <= Len(Submitted) + 1
        /\ IsPrefix(execTrace, execTrace')
        /\ Len(execTrace') <= Len(execTrace) + 1 ]_vars

\* C15 witness: the execution thread has run the marker and work commands
\* of one asynchronous call and begun those of the next, more being queued.
C15_Witness ==
    /\ debugCommands.systrace
    /\ Len(execTrace) >= 4
    /\ execTrace[2].m = "run"
    /\ execTrace[4].m = "begin"
    /\ queue # <<>>

\* C16: from the acquisition of mPurgeLock to its release purge() holds the
\* lock without interruption and no push_back takes effect, and when it is
\* about to release the lock both pending lists are empty.
C16_BothSwapsInOneCriticalSection ==
    \A t \in Threads :
        /\ (At(t, "purge", "swapB") \/ At(t, "purge", "swapI") \/ At(t, "purge", "unlock")) =>
              /\ mPurgeLock = t
              /\ pushed = Top(t).pushedAtLock
        /\ At(t, "purge", "unlock") =>
              /\ mBufferToPurge = <<>>
              /\ mImagesToPurge = <<>>
              /\ \A x \in pushed : takenBy[x] # 0

\* C16 witness: purge() has swapped out a buffer and an image and is about
\* to unlock, while a schedule* call of the GL thread waits for the lock.
C16_Witness ==
    /\ At("user", "purge", "unlock")
    /\ Top("user").buffersToPurge # <<>>
    /\ Top("user").imagesToPurge # <<>>
    /\ InSchedule("gl", "lock")

\* C17: among the callbacks of the items one purge() took, no image
\* callback comes after a buffer callback, and a buffer callback runs only
\* once that purge() has left its range-for over the images.
C17_ImagesBeforeBuffers ==
    /\ \A j, k \in 1..Len(cbLog) :
          (j < k /\ IsBuffer(cbLog[j]) /\ takenBy[cbLog[j]] # 0
                 /\ takenBy[cbLog[k]] = takenBy[cbLog[j]]) => IsBuffer(cbLog[k])
    /\ \A t \in Threads :
          (InCallback(t) /\ IsBuffer(Top(t).item)) =>
              /\ stack[t][2].pc = "buffers"
              /\ stack[t][2].i = Len(stack[t][2].imagesToPurge)

\* C17 witness: a purge() that took two images and a buffer is running the
\* buffer's callback, both image callbacks having run before.
C17_Witness ==
    \E t \in Threads :
        /\ InCallback(t)
        /\ IsBuffer(Top(t).item)
        /\ Len(stack[t][2].imagesToPurge) = 2
        /\ \A im \in Range(stack[t][2].imagesToPurge) : calls[im] = 1

\* The items a purge() activation has taken and not yet released.
Holding(f) ==
    IF f.op = "purge"
    THEN Range(f.buffersToPurge)
         \cup {f.imagesToPurge[k] : k \in (f.i + 1)..Len(f.imagesToPurge)}
    ELSE {}

\* The purge() activations, by thread and stack position, that hold item x.
Holders(x) ==
    {p \in Threads \X (1..(2 * MaxPurges + 1)) :
        p[2] <= Len(stack[p[1]]) /\ x \in Holding(stack[p[1]][p[2]])}

\* Thread t can take a step of purge(), of schedule* or return from a callback.
CanStep(t) == ENABLED (Step(t) \/ CallbackReturn(t))

\* C18: with purge() called from both threads and from release callbacks,
\* every pushed item is at any time in exactly one place (pending, held by
\* exactly one purge(), or released), no callback is invoked twice, and no
\* thread is stuck: a thread inside a call can take a step, or waits for
\* the lock while its owner, another thread, can.
C18_ConcurrentPurgesPartition ==
    /\ \A x \in Items : calls[x] <= 1
    /\ \A x \in pushed :
          (IF x \in Pending THEN 1 ELSE 0) + Cardinality(Holders(x)) + calls[x] = 1
    /\ \A t \in Threads :
          ~Idle(t) => \/ CanStep(t)
                      \/ mPurgeLock \notin {NoThread, t} /\ CanStep(mPurgeLock)

\* A purge() called from a release callback of another purge() on the same
\* thread holds an item while the outer one still holds one.
C18_ReentrantHolding ==
    \E t \in Threads : \E x, y \in Items :
        \E p \in Holders(x), q \in Holders(y) :
            p[1] = t /\ q[1] = t /\ p[2] < q[2]

\* C18 witness: two purges are in progress at once, one on each thread, each
\* holding items it took, and one callback has already been invoked.
C18_Witness ==
    /\ \E x \in Items : \E p \in Holders(x) : p[1] = "user"
    /\ \E x \in Items : \E p \in Holders(x) : p[1] = "gl"
    /\ \E x \in Items : calls[x] = 1

\* The number of elements of s of kind m ("begin", "end" or "run") that
\* belong to a driver method of the command stream.
Count(s, m) ==
    Cardinality({k \in 1..Len(s) : s[k].m = m /\ (m = "run" => s[k].name \in Methods)})

\* No end marker of s comes without an unmatched begin marker before it.
Balanced(s) ==
    \A k \in 0..Len(s) :
        Count(SubSeq(s, 1, k), "end") <= Count(SubSeq(s, 1, k), "begin")

\* 1 if the calling thread is inside a begin/end pair at one of the given
\* positions, as a synchronous or asynchronous call, else 0.
Open(pcs, synchronous) ==
    IF cmd.pc \in pcs /\ cmd.synchronous = synchronous THEN 1 ELSE 0

\* C19: with trace markers on, on the calling thread there is one immediate
\* begin marker per call begun and one immediate end marker per call ended,
\* synchronous or not; the commands submitted to the execution thread hold
\* one begin and one end marker per asynchronous call; and on neither
\* thread does an end marker come without an unmatched begin before it.
C19_MarkersBalanced ==
    debugCommands.systrace =>
        /\ Count(callerTrace, "begin") =
              Count(callerTrace, "run") + Count(Submitted, "run")
              + Open({"work"}, TRUE) + Open({"work"}, FALSE)
        /\ Count(callerTrace, "end") =
              Count(callerTrace, "begin")
              - Open({"work", "end"}, TRUE) - Open({"work", "end"}, FALSE)
        /\ Count(Submitted, "begin") = Count(Submitted, "run") + Open({"work"}, FALSE)
        /\ Count(Submitted, "end") = Count(Submitted, "run") - Open({"end"}, FALSE)
        /\ Balanced(callerTrace)
        /\ Balanced(Submitted)
        /\ Balanced(execTrace)

\* C19 witness: a synchronous and an asynchronous call have both completed
\* with trace markers on, and the execution thread has run the queued begin
\* marker, the work and the queued end marker of the asynchronous one.
C19_Witness ==
    /\ debugCommands.systrace
    /\ cmd.pc = "idle"
    /\ queue = <<>>
    /\ Count(callerTrace, "run") = 1
    /\ Count(callerTrace, "begin") = 2
    /\ Count(callerTrace, "end") = 2
    /\ Count(execTrace, "begin") = 1
    /\ Count(execTrace, "run") = 1
    /\ Count(execTrace, "end") = 1

====
